---- MODULE Spec2Model ----
(***************************************************************************)
(* hidive-pubs: a script that fetches the publications of a lab from the   *)
(* Zotero Web API, resolves PubMed ids for their DOIs, formats citations   *)
(* and writes papers.json / pubs.csv / preprints.csv.                      *)
(*                                                                         *)
(* The module models                                                       *)
(*   - fetchZoteroCollection, the paginated collection fetch,              *)
(*   - main of the final script (two collection fetches, getPubMedIds,     *)
(*     sort and enrichment, three file writes),                            *)
(*   - main of the earlier key-list script (key fetch, overlap assertion,  *)
(*     per-item fetch with one retry),                                     *)
(*   - getPubMedIds on its own, against an id converter that may report    *)
(*     a DOI with a pmid, with an empty pmid, without one, or not at all,  *)
(*   - the pure functions zoteroItemSchema, formatAuthors,                 *)
(*     formatJournalInfo and the toSorted comparator with the enrichment.  *)
(*                                                                         *)
(* Strings that are formatted or converted are sequences of one-character  *)
(* strings, so that concatenation, joins, regular-expression matches and   *)
(* Number(..) are computed.                                                *)
(* An optional value is <<>> (undefined) or <<v>> (the value v); a number  *)
(* that is NaN is recorded by name beside the values (date.nan).           *)
(***************************************************************************)
EXTENDS Integers, Sequences, FiniteSets, TLC

VARIABLES
    server,      \* the remote Zotero collections: [pubs |-> Seq(raw), preprints |-> Seq(raw)]
    ncbi,        \* the NCBI id converter: the pmid field of the record of each DOI it reports
    fpc,         \* fetchZoteroCollection: "idle" | "loop" | "returned" | "thrown"
    fcoll,       \* fetchZoteroCollection: collectionId
    start,       \* fetchZoteroCollection: let start
    fitems,      \* fetchZoteroCollection: let items
    requests,    \* every page request issued: <<[coll, start, limit, len]>>
    pc,          \* position of main
    items,       \* main: let items
    gpc,         \* getPubMedIds: "idle" | "loop" | "returned" | "thrown"
    dois,        \* getPubMedIds: parameter dois
    gi,          \* getPubMedIds: loop variable i
    records,     \* getPubMedIds: let records (the object doi -> pmid)
    batches,     \* every DOI batch sent to the id converter
    withPubMedIds, \* main: the sorted, enriched list
    files,       \* the output directory: [file name |-> content]
    errors,      \* errors thrown so far, in order
    log,         \* console.error diagnostics, in order
    pubIds,      \* key-list script: keys of the publications collection
    preprintIds, \* key-list script: keys of the preprints collection
    itemKeys,    \* key-list script: let itemKeys
    ki,          \* key-list script: index of the key being fetched (1-based)
    attempt,     \* key-list script: 1 = in the try block, 2 = in the catch block
    attempts,    \* every fetchZoteroItem call: <<[key, n, ok]>>
    input,       \* argument of the pure function applied
    output       \* its result: <<>> before the call, <<result>> after

vars == <<server, ncbi, fpc, fcoll, start, fitems, requests, pc, items,
          gpc, dois, gi, records, batches, withPubMedIds, files, errors, log,
          pubIds, preprintIds, itemKeys, ki, attempt, attempts, input, output>>

envVars == <<server, ncbi>>
fetchVars == <<fpc, fcoll, start, fitems, requests>>
mainVars == <<pc, items, withPubMedIds, files, log>>
pubmedVars == <<gpc, dois, gi, records, batches>>
keysVars == <<pubIds, preprintIds, itemKeys, ki, attempt, attempts>>
pureVars == <<input, output>>

----------------------------------------------------------------------------
(* Bounds of the model *)

\* longest remote collection of the pagination specification
MaxRaw == 5
\* longest remote collection of the two script specifications
MaxColl == 2
\* page size of fetchZoteroCollection, scaled down (the script uses 100)
itemsPerPage == 2
\* default batch size of getPubMedIds, scaled down (the script uses 100)
batchSize == 2

----------------------------------------------------------------------------
(* Generic helpers *)

None == <<>>
Some(v) == <<v>>

Range(s) == {s[i] : i \in 1..Len(s)}

SeqsUpTo(S, n) == UNION {[1..k -> S] : k \in 0..n}

Min(a, b) == IF a < b THEN a ELSE b

\* Array.prototype.slice(from, to) with 0-based, end-exclusive indices
Slice(s, from, to) == SubSeq(s, from + 1, Min(to, Len(s)))

----------------------------------------------------------------------------
(* The remote records and the schema validator *)

\* An element of a date range, z.union([z.number(), z.string()]): a JSON
\* number, or a JSON string held as the sequence of its characters
JsonNumber(n) == [number |-> n]
JsonString(chars) == [string |-> chars]

\* A raw record of the Zotero API: data.key, data.itemType, data.DOI and
\* csljson.issued["date-parts"], here with numbers in every date range
Raw(key, itemType, doi, dateParts) ==
    [key |-> key, itemType |-> itemType, DOI |-> doi,
     dateParts |-> [r \in DOMAIN dateParts |->
                       [k \in DOMAIN dateParts[r] |-> JsonNumber(dateParts[r][k])]]]

\* the optional textual fields of data, each a maybeStringSchema
TextFields ==
    {"institution", "bookTitle", "proceedingsTitle", "publicationTitle",
     "volume", "issue", "pages", "series", "seriesTitle", "seriesText",
     "journalAbbreviation", "DOI", "ISSN", "shortTitle", "url"}

\* an optional string passed through as it is
maybeStringSchemaKept(v) == v

\* maybeStringSchema: an optional string, the empty string becoming undefined
maybeStringSchema(v) == IF v = Some("") THEN None ELSE v

\* parts[i] of a JavaScript array, 0-based: undefined past the end
At(parts, i) == IF i < Len(parts) THEN Some(parts[i + 1]) ELSE None

\* a refinement that only asks for a first date range
issuedRefineFirst(raw) == Len(raw.dateParts) >= 1

\* the refinement of csljson.issued: exactly one date range
issuedRefine(raw) == Len(raw.dateParts) = 1

\* the value of a decimal digit
DigitValue(ch) ==
    CASE ch = "0" -> 0 [] ch = "1" -> 1 [] ch = "2" -> 2 [] ch = "3" -> 3
      [] ch = "4" -> 4 [] ch = "5" -> 5 [] ch = "6" -> 6 [] ch = "7" -> 7
      [] ch = "8" -> 8 [] ch = "9" -> 9

\* the number a string of decimal digits denotes
RECURSIVE DecimalValue(_)
DecimalValue(chars) ==
    IF chars = <<>> THEN 0
    ELSE 10 * DecimalValue(SubSeq(chars, 1, Len(chars) - 1))
         + DigitValue(chars[Len(chars)])

\* Number(part), for a number, a string of decimal digits, the empty string
\* (0) and a string with a character that no numeric literal holds (NaN)
Number(part) ==
    IF "number" \in DOMAIN part THEN [nan |-> FALSE, n |-> part.number]
    ELSE IF \A i \in 1..Len(part.string) :
                part.string[i] \in {"0", "1", "2", "3", "4", "5", "6", "7", "8", "9"}
         THEN [nan |-> FALSE, n |-> DecimalValue(part.string)]
         ELSE [nan |-> TRUE, n |-> 0]

\* the transform of csljson.issued: year, month and day are the numbers at
\* the positions 0, 1 and 2, None where the position is past the end or
\* holds NaN, and nan names the positions that hold NaN
issuedTransform(raw) ==
    LET parts == [k \in DOMAIN raw.dateParts[1] |-> Number(raw.dateParts[1][k])]
        numberAt(i) == IF At(parts, i) = None \/ parts[i + 1].nan
                       THEN None ELSE Some(parts[i + 1].n)
        isNaN(i) == At(parts, i) # None /\ parts[i + 1].nan
    IN  [year |-> numberAt(0), month |-> numberAt(1), day |-> numberAt(2),
         nan |-> {name \in {"year", "month", "day"} :
                     isNaN(CASE name = "year" -> 0 [] name = "month" -> 1
                             [] name = "day" -> 2)}]

\* zoteroItemSchema.safeParse: [ok |-> FALSE] is a ZodError
zoteroItemSchema(raw) ==
    IF issuedRefine(raw)
    THEN [ok |-> TRUE,
          value |-> [f \in (DOMAIN raw \cap TextFields) |-> maybeStringSchema(raw[f])]
                    @@ [key |-> raw.key, itemType |-> raw.itemType,
                        date |-> issuedTransform(raw)]]
    ELSE [ok |-> FALSE]

\* zoteroItemSchema.array().parse succeeds iff every element parses
arrayParseOk(raws) == \A i \in 1..Len(raws) : zoteroItemSchema(raws[i]).ok
arrayParse(raws) == [i \in 1..Len(raws) |-> zoteroItemSchema(raws[i]).value]

----------------------------------------------------------------------------
(* fetchZoteroCollection *)

IsNotAttachment(raw) == raw.itemType # "attachment"
IsNotNote(raw) == raw.itemType # "note"

\* GET collections/{collectionId}/items?itemType=-attachment&limit=..&start=..
\* as the Zotero API answers it: the window [start, start + limit) of the
\* items of the collection that are not attachments.
zoteroItemsResponse(collectionId, limit, from) ==
    Slice(SelectSeq(server[collectionId], IsNotAttachment), from, from + limit)

\* json.filter((item) => item.data.itemType !== "note")
filterNotes(json) == SelectSeq(json, IsNotNote)

\* a fetch that advances past one record too many
nextStartSkips(s) == s + itemsPerPage + 1

\* start += itemsPerPage
nextStart(s) == s + itemsPerPage

\* a fetch that tests the length of the page after the note filter
isLastPageFiltered(json) == Len(filterNotes(json)) < itemsPerPage

\* if (json.length < itemsPerPage) break
isLastPage(json) == Len(json) < itemsPerPage

PageRequest(json) ==
    [coll |-> fcoll, start |-> start, limit |-> itemsPerPage, len |-> Len(json)]

\* one iteration of the while loop whose request and validation succeed
FetchPage ==
    /\ fpc = "loop"
    /\ LET json == zoteroItemsResponse(fcoll, itemsPerPage, start)
       IN  /\ arrayParseOk(filterNotes(json))
           /\ requests' = Append(requests, PageRequest(json))
           /\ fitems' = fitems \o arrayParse(filterNotes(json))
           /\ IF isLastPage(json)
              THEN fpc' = "returned" /\ start' = start
              ELSE fpc' = "loop" /\ start' = nextStart(start)
    /\ UNCHANGED <<fcoll, errors>>
    /\ UNCHANGED <<envVars, mainVars, pubmedVars, keysVars, pureVars>>

\* one iteration whose page holds a record the schema rejects: parse throws
FetchPageInvalid ==
    /\ fpc = "loop"
    /\ LET json == zoteroItemsResponse(fcoll, itemsPerPage, start)
       IN  /\ ~arrayParseOk(filterNotes(json))
           /\ requests' = Append(requests, PageRequest(json))
    /\ fpc' = "thrown"
    /\ errors' = Append(errors, "ZodError")
    /\ UNCHANGED <<fcoll, start, fitems>>
    /\ UNCHANGED <<envVars, mainVars, pubmedVars, keysVars, pureVars>>

\* a fetch that swallows a failed request and returns what it has so far
FetchPageFailsSwallowed ==
    /\ fpc = "loop"
    /\ requests' = Append(requests,
           [coll |-> fcoll, start |-> start, limit |-> itemsPerPage, len |-> 0])
    /\ fpc' = "returned"
    /\ errors' = Append(errors, "FetchError")
    /\ UNCHANGED <<fcoll, start, fitems>>
    /\ UNCHANGED <<envVars, mainVars, pubmedVars, keysVars, pureVars>>

\* one iteration whose fetch(url) or response.json() throws
FetchPageFails ==
    /\ fpc = "loop"
    /\ requests' = Append(requests,
           [coll |-> fcoll, start |-> start, limit |-> itemsPerPage, len |-> 0])
    /\ fpc' = "thrown"
    /\ errors' = Append(errors, "FetchError")
    /\ UNCHANGED <<fcoll, start, fitems>>
    /\ UNCHANGED <<envVars, mainVars, pubmedVars, keysVars, pureVars>>

----------------------------------------------------------------------------
(* getPubMedIds *)

\* the pmid the id converter holds for a DOI
PmidOf(doi) == "PMID:" \o doi

\* what the id converter may hold for the DOIs of a set: no record, or a
\* record without a pmid, with an empty pmid or with the pmid of the DOI
NcbiStates(ds) ==
    UNION {{f \in [reported -> {None, Some("")} \cup {Some(PmidOf(d)) : d \in ds}] :
               \A d \in reported : f[d] \in {None, Some(""), Some(PmidOf(d))}} :
           reported \in SUBSET ds}

\* the id converter's answer to ?ids=batch: the records of the DOIs asked
\* for that it reports, in the order asked
ncbiIdConverterResponse(batch) ==
    LET isReported(doi) == doi \in DOMAIN ncbi
        reported == SelectSeq(batch, isReported)
    IN  [i \in 1..Len(reported) |->
            [doi |-> reported[i],
             pmid |-> ncbi[reported[i]]]]

\* a test of the presence of the pmid alone
hasPmidKey(record) == record.pmid # None

\* if (record.pmid): a pmid that is present and not the empty string
hasPmid(record) == record.pmid # None /\ record.pmid # Some("")

\* records[record.doi] = record.pmid
assignRecord(recs, record) ==
    [d \in DOMAIN recs \cup {record.doi} |->
        IF d = record.doi THEN record.pmid[1] ELSE recs[d]]

\* for (let record of response.records) if (record.pmid) records[..] = ..
RECURSIVE collectRecords(_, _)
collectRecords(recs, response) ==
    IF response = <<>> THEN recs
    ELSE collectRecords(
            IF hasPmid(Head(response)) THEN assignRecord(recs, Head(response))
            ELSE recs,
            Tail(response))

\* a loop test that only lets full batches through
pubMedLoopFullOnly(i, ds) == IF i + batchSize <= Len(ds) THEN "loop" ELSE "returned"

\* the loop test i < dois.length, as the position getPubMedIds is left in
pubMedLoop(i, ds) == IF i < Len(ds) THEN "loop" ELSE "returned"

\* one iteration of the batch loop whose request succeeds
GetPubMedIdsBatch ==
    /\ gpc = "loop"
    /\ LET batch == Slice(dois, gi, gi + batchSize)
       IN  /\ batches' = Append(batches, batch)
           /\ records' = collectRecords(records, ncbiIdConverterResponse(batch))
    /\ gi' = gi + batchSize
    /\ gpc' = pubMedLoop(gi', dois)
    /\ UNCHANGED <<dois, errors>>
    /\ UNCHANGED <<envVars, mainVars, fetchVars, keysVars, pureVars>>

\* one iteration whose fetch(url), response.json() or schema parse throws
GetPubMedIdsFails ==
    /\ gpc = "loop"
    /\ batches' = Append(batches, Slice(dois, gi, gi + batchSize))
    /\ gpc' = "thrown"
    /\ errors' = Append(errors, "IdConverterError")
    /\ UNCHANGED <<dois, gi, records>>
    /\ UNCHANGED <<envVars, mainVars, fetchVars, keysVars, pureVars>>

----------------------------------------------------------------------------
(* The sort and the enrichment of main *)

\* a.date.month ?? 0, for a month that is not NaN
monthOrZero(item) == IF item.date.month = None THEN 0 ELSE item.date.month[1]

\* new Date(a.date.year, a.date.month ?? 0) is an invalid date: the year is
\* undefined or NaN, or the month is NaN
invalidDate(item) == item.date.year = None \/ "month" \in item.date.nan

\* new Date(year, monthIndex).getTime(), counted in months: the first day of
\* month monthIndex (0-based, carried into the following years past 11) of
\* the year, the years 0..99 standing for 1900..1999
DateGetTime(year, monthIndex) ==
    (IF year \in 0..99 THEN 1900 + year ELSE year) * 12 + monthIndex

\* the comparator of toSorted; NaN (an invalid date on either side) counts
\* as 0
compareFn(a, b) ==
    IF invalidDate(a) \/ invalidDate(b) THEN 0
    ELSE DateGetTime(b.date.year[1], monthOrZero(b))
         - DateGetTime(a.date.year[1], monthOrZero(a))

\* Array.prototype.toSorted as V8 (the engine of Deno) computes it for an
\* array of fewer than 64 elements: the run at the start of the array is
\* found, reversed when it is strictly descending, and the elements behind
\* it are inserted one by one at the place a binary search finds. The
\* positions low, start, left, right, mid count from 0 as they do in V8.

\* CountAndMakeRun, the length: the longest run a[0..r) that is strictly
\* descending when a[1] sorts before a[0], and non-descending otherwise
countRun(a) ==
    LET isDescending == compareFn(a[2], a[1]) < 0
        inRun(k) == IF isDescending THEN compareFn(a[k], a[k - 1]) < 0
                    ELSE compareFn(a[k], a[k - 1]) >= 0
    IN  CHOOSE r \in 2..Len(a) :
            /\ \A k \in 3..r : inRun(k)
            /\ r = Len(a) \/ ~inRun(r + 1)

\* CountAndMakeRun, the array: a strictly descending run is reversed
makeRun(a) ==
    LET r == countRun(a)
    IN  IF compareFn(a[2], a[1]) < 0
        THEN [k \in 1..Len(a) |-> IF k <= r THEN a[r + 1 - k] ELSE a[k]]
        ELSE a

\* the binary search of BinaryInsertionSort: where the pivot belongs in
\* a[left..right)
RECURSIVE insertionPoint(_, _, _, _)
insertionPoint(a, pivot, left, right) ==
    IF left < right
    THEN LET mid == left + ((right - left) \div 2)
         IN  IF compareFn(pivot, a[mid + 1]) < 0
             THEN insertionPoint(a, pivot, left, mid)
             ELSE insertionPoint(a, pivot, mid + 1, right)
    ELSE left

\* BinaryInsertionSort(0, start, high), a[0..start) holding the elements
\* placed so far
RECURSIVE binaryInsertionSort(_, _, _)
binaryInsertionSort(a, from, high) ==
    IF from < high
    THEN LET pivot == a[from + 1]
             left == insertionPoint(a, pivot, 0, from)
         IN  binaryInsertionSort(
                SubSeq(a, 1, left) \o <<pivot>> \o SubSeq(a, left + 1, from)
                \o SubSeq(a, from + 2, Len(a)),
                from + 1, high)
    ELSE a

\* Array.prototype.toSorted(compareFn)
toSorted(s) ==
    IF Len(s) < 2 THEN s
    ELSE binaryInsertionSort(makeRun(s), countRun(s), Len(s))

\* idMap[item.DOI as string]: an undefined DOI reads the key "undefined"
idMapLookup(idMap, doi) ==
    LET k == IF doi = None THEN "undefined" ELSE doi[1]
    IN  IF k \in DOMAIN idMap THEN Some(idMap[k]) ELSE None

\* ({ pmid: idMap[item.DOI as string], ...item })
withPmid(idMap, item) ==
    [key |-> item.key, itemType |-> item.itemType, DOI |-> item.DOI,
     date |-> item.date, pmid |-> idMapLookup(idMap, item.DOI)]

\* items.toSorted(...).map(...)
sortAndEnrich(its, idMap) ==
    LET sorted == toSorted(its)
    IN  [i \in 1..Len(sorted) |-> withPmid(idMap, sorted[i])]

\* items.map((item) => item.DOI).filter((d) => typeof d === "string")
HasDoi(item) == item.DOI # None
doisOf(its) ==
    LET with == SelectSeq(its, HasDoi)
    IN  [i \in 1..Len(with) |-> with[i].DOI[1]]

IsPreprint(item) == item.itemType = "preprint"
IsNotPreprint(item) == item.itemType # "preprint"

\* toCsv throws on an empty list: Object.keys(rows[0]) of undefined
toCsvThrows(pubs) == pubs = <<>>

\* toCsv: one row per item
toCsv(pubs) ==
    [i \in 1..Len(pubs) |->
        [Month |-> pubs[i].date.month, Year |-> pubs[i].date.year,
         Citation |-> pubs[i].key,  \* the citation, named by the item it cites
         PubMedID |-> pubs[i].pmid, DOI |-> pubs[i].DOI]]

\* Deno.writeTextFileSync(path.join(outDir, f), content)
writeTextFileSync(fs, f, content) ==
    [fs EXCEPT ![f] = [written |-> TRUE, content |-> content]]

----------------------------------------------------------------------------
(* main of the key-list script *)

IsNote(raw) == raw.itemType = "note"

\* the body of GET collections/{id}/items?format=keys: one key per line
keysOf(raws) == [i \in 1..Len(raws) |-> raws[i].key]

\* text.trim().split("\n"): the empty text splits into one empty string
splitLines(lines) == IF lines = <<>> THEN <<"">> ELSE lines

\* ids.add(id) on a Set, which keeps insertion order
setAdd(ids, id) == IF id \in Range(ids) THEN ids ELSE Append(ids, id)

RECURSIVE setAddAll(_, _)
setAddAll(ids, lines) ==
    IF lines = <<>> THEN ids ELSE setAddAll(setAdd(ids, Head(lines)), Tail(lines))

\* ids.delete(id) for every id of lines
setDeleteAll(ids, lines) == SelectSeq(ids, LAMBDA id : id \notin Range(lines))

\* fetchHidiveZoteroItemKeys: the keys that are not attachments, less the
\* keys of the notes
fetchHidiveZoteroItemKeys(collectionId) ==
    LET all == splitLines(keysOf(SelectSeq(server[collectionId], IsNotAttachment)))
        notes == splitLines(keysOf(SelectSeq(server[collectionId], IsNote)))
    IN  setDeleteAll(setAddAll(<<>>, all), notes)

\* pubIds.intersection(preprintIds).size === 0
noOverlap(a, b) == Range(a) \cap Range(b) = {}

\* the record GET items/{itemKey} answers with
rawOfKey(k) ==
    CHOOSE r \in Range(server.pubs) \cup Range(server.preprints) : r.key = k

\* fetchHidiveZoteroItemKeys(PUBLICATIONS) of the Promise.all resolves
KeysFetchPubs ==
    /\ pc \in {"keys", "keysPreprints"}
    /\ pubIds' = fetchHidiveZoteroItemKeys("pubs")
    /\ pc' = IF pc = "keys" THEN "keysPubs" ELSE "keysBoth"
    /\ UNCHANGED <<preprintIds, itemKeys, ki, attempt, attempts>>
    /\ UNCHANGED <<items, withPubMedIds, files, log, errors>>
    /\ UNCHANGED <<envVars, fetchVars, pubmedVars, pureVars>>

\* fetchHidiveZoteroItemKeys(PREPRINTS) of the Promise.all resolves
KeysFetchPreprints ==
    /\ pc \in {"keys", "keysPubs"}
    /\ preprintIds' = fetchHidiveZoteroItemKeys("preprints")
    /\ pc' = IF pc = "keys" THEN "keysPreprints" ELSE "keysBoth"
    /\ UNCHANGED <<pubIds, itemKeys, ki, attempt, attempts>>
    /\ UNCHANGED <<items, withPubMedIds, files, log, errors>>
    /\ UNCHANGED <<envVars, fetchVars, pubmedVars, pureVars>>

\* a request of either key fetch throws: Promise.all rejects, main rejects
KeysFetchFails ==
    /\ pc \in {"keys", "keysPubs", "keysPreprints"}
    /\ errors' = Append(errors, "FetchError")
    /\ pc' = "aborted"
    /\ UNCHANGED <<items, withPubMedIds, files, log>>
    /\ UNCHANGED <<envVars, fetchVars, pubmedVars, keysVars, pureVars>>

\* assert(no overlap) holds; let itemKeys = [...pubIds, ...preprintIds]
KeysAssert ==
    /\ pc = "keysBoth"
    /\ noOverlap(pubIds, preprintIds)
    /\ itemKeys' = pubIds \o preprintIds
    /\ ki' = 1 /\ attempt' = 1
    /\ pc' = "loop"
    /\ UNCHANGED <<pubIds, preprintIds, attempts>>
    /\ UNCHANGED <<items, withPubMedIds, files, log, errors>>
    /\ UNCHANGED <<envVars, fetchVars, pubmedVars, pureVars>>

\* assert(no overlap) throws "Overlap between collections"
KeysAssertThrows ==
    /\ pc = "keysBoth"
    /\ ~noOverlap(pubIds, preprintIds)
    /\ errors' = Append(errors, "AssertionError")
    /\ pc' = "aborted"
    /\ UNCHANGED <<items, withPubMedIds, files, log>>
    /\ UNCHANGED <<envVars, fetchVars, pubmedVars, keysVars, pureVars>>

\* the fetchZoteroItem call made when the try block (n = 1) or the catch
\* block (n = 2) is entered for the key at index i
ItemAttempt(i, n, ok) == [key |-> itemKeys[i], n |-> n, ok |-> ok]

\* a loop that gives a key up after its first failure
afterFailureNoRetry(i, n) == [ki |-> i + 1, attempt |-> 1]

\* where the loop goes after a failed attempt n: into the catch block after
\* the first, on to the next key after the second
afterFailure(i, n) == IF n = 1 THEN [ki |-> i, attempt |-> 2]
                      ELSE [ki |-> i + 1, attempt |-> 1]

\* items.push(await fetchZoteroItem(itemKey)), in the try or the catch block;
\* await pb.render(i++)
FetchItem ==
    /\ pc = "loop" /\ ki <= Len(itemKeys)
    /\ zoteroItemSchema(rawOfKey(itemKeys[ki])).ok
    /\ attempts' = Append(attempts, ItemAttempt(ki, attempt, TRUE))
    /\ items' = Append(items, zoteroItemSchema(rawOfKey(itemKeys[ki])).value)
    /\ ki' = ki + 1 /\ attempt' = 1
    /\ UNCHANGED <<pc, pubIds, preprintIds, itemKeys>>
    /\ UNCHANGED <<withPubMedIds, files, log, errors>>
    /\ UNCHANGED <<envVars, fetchVars, pubmedVars, pureVars>>

\* fetchZoteroItem throws (the request, or the validation of the record):
\* the first failure enters the catch block, the second is logged
FetchItemFails ==
    /\ pc = "loop" /\ ki <= Len(itemKeys)
    /\ attempts' = Append(attempts, ItemAttempt(ki, attempt, FALSE))
    /\ ki' = afterFailure(ki, attempt).ki
    /\ attempt' = afterFailure(ki, attempt).attempt
    \* console.error(`Could not fetch item ${itemKey}: ${error}`)
    /\ log' = IF attempt = 2 THEN Append(log, itemKeys[ki]) ELSE log
    /\ UNCHANGED <<pc, pubIds, preprintIds, itemKeys>>
    /\ UNCHANGED <<items, withPubMedIds, files, errors>>
    /\ UNCHANGED <<envVars, fetchVars, pubmedVars, pureVars>>

\* the loop is over: let idMap = await getPubMedIds(dois): the call
KeysGetPubMedIds ==
    /\ pc = "loop" /\ ki > Len(itemKeys)
    /\ pc' = "awaitPubMed"
    /\ dois' = doisOf(items)
    /\ gi' = 0 /\ records' = <<>>
    /\ gpc' = pubMedLoop(0, dois')
    /\ UNCHANGED <<batches, items, withPubMedIds, files, log, errors>>
    /\ UNCHANGED <<envVars, fetchVars, keysVars, pureVars>>

\* let final = items.toSorted(..).map(..) and the three writes, both
\* partitions having an item
KeysExport ==
    /\ pc = "awaitPubMed" /\ gpc = "returned"
    /\ withPubMedIds' = sortAndEnrich(items, records)
    /\ ~toCsvThrows(SelectSeq(withPubMedIds', IsNotPreprint))
    /\ ~toCsvThrows(SelectSeq(withPubMedIds', IsPreprint))
    /\ files' = writeTextFileSync(
                   writeTextFileSync(
                     writeTextFileSync(files, "pubs.json", withPubMedIds'),
                     "pubs.csv", toCsv(SelectSeq(withPubMedIds', IsNotPreprint))),
                   "preprints.csv", toCsv(SelectSeq(withPubMedIds', IsPreprint)))
    /\ pc' = "done"
    /\ UNCHANGED <<items, log, errors>>
    /\ UNCHANGED <<envVars, fetchVars, pubmedVars, keysVars, pureVars>>

\* pubs.json is written (and pubs.csv, when there is a publication), then
\* toCsv throws on an empty list
KeysExportThrows ==
    /\ pc = "awaitPubMed" /\ gpc = "returned"
    /\ withPubMedIds' = sortAndEnrich(items, records)
    /\ \/ toCsvThrows(SelectSeq(withPubMedIds', IsNotPreprint))
       \/ toCsvThrows(SelectSeq(withPubMedIds', IsPreprint))
    /\ files' =
          IF toCsvThrows(SelectSeq(withPubMedIds', IsNotPreprint))
          THEN writeTextFileSync(files, "pubs.json", withPubMedIds')
          ELSE writeTextFileSync(
                 writeTextFileSync(files, "pubs.json", withPubMedIds'),
                 "pubs.csv", toCsv(SelectSeq(withPubMedIds', IsNotPreprint)))
    /\ errors' = Append(errors, "TypeError")
    /\ pc' = "aborted"
    /\ UNCHANGED <<items, log>>
    /\ UNCHANGED <<envVars, fetchVars, pubmedVars, keysVars, pureVars>>

\* getPubMedIds has thrown: nothing catches it, main rejects
KeysRejected ==
    /\ pc = "awaitPubMed" /\ gpc = "thrown"
    /\ pc' = "aborted"
    /\ UNCHANGED <<items, withPubMedIds, files, log, errors>>
    /\ UNCHANGED <<envVars, fetchVars, pubmedVars, keysVars, pureVars>>

----------------------------------------------------------------------------
(* Idle values of the parts of the state a specification does not use *)

\* papers.json is the final script's list, pubs.json the key-list script's
OutputFiles == {"papers.json", "pubs.json", "pubs.csv", "preprints.csv"}

\* the output directory before the run: no file written by this run
NoFiles == [f \in OutputFiles |-> [written |-> FALSE, content |-> <<>>]]

FetchIdle ==
    /\ fpc = "idle" /\ fcoll = "pubs" /\ start = 0 /\ fitems = <<>>
    /\ requests = <<>>

PubMedIdle ==
    /\ gpc = "idle" /\ dois = <<>> /\ gi = 0 /\ records = <<>> /\ batches = <<>>

MainIdle ==
    /\ pc = "idle" /\ items = <<>> /\ withPubMedIds = <<>> /\ files = NoFiles
    /\ errors = <<>> /\ log = <<>>

KeysIdle ==
    /\ pubIds = <<>> /\ preprintIds = <<>> /\ itemKeys = <<>>
    /\ ki = 0 /\ attempt = 0 /\ attempts = <<>>

PureIdle == input = <<>> /\ output = <<>>

----------------------------------------------------------------------------
(* formatAuthors *)

\* Array.prototype.join(sep) of an array of strings
RECURSIVE join(_, _)
join(strs, sep) ==
    IF strs = <<>> THEN <<>>
    ELSE IF Len(strs) = 1 THEN strs[1]
    ELSE strs[1] \o sep \o join(Tail(strs), sep)

\* String.prototype.includes
includes(s, part) ==
    \E i \in 0..(Len(s) - Len(part)) : SubSeq(s, i + 1, i + Len(part)) = part

\* an emphasis that is never applied
itPlain(rich, text) == text

\* let it = (text) => options.rich ? `*${text}*` : text
it(rich, text) == IF rich THEN <<"*">> \o text \o <<"*">> ELSE text

\* let b = (text) => options.rich ? `**${text}**` : text
bold(rich, text) == IF rich THEN <<"*", "*">> \o text \o <<"*", "*">> ELSE text

\* the character class [A-Z]
UpperCase ==
    {"A", "B", "C", "D", "E", "F", "G", "H", "I", "J", "K", "L", "M",
     "N", "O", "P", "Q", "R", "S", "T", "U", "V", "W", "X", "Y", "Z"}

IsUpperCase(ch) == ch \in UpperCase

\* a match that stops at the first capital letter (a regular expression
\* without the g flag)
initialsFirstMatch(firstName) ==
    LET all == SelectSeq(firstName, IsUpperCase)
    IN  IF all = <<>> THEN <<>> ELSE <<all[1]>>

\* firstName.match(/[A-Z]/g)?.join("") ?? ""
initials(firstName) == SelectSeq(firstName, IsUpperCase)

\* the callback of .map: one creator rendered
formatAuthor(author, rich) ==
    IF "name" \in DOMAIN author
    THEN it(rich, author.name)
    ELSE initials(author.firstName) \o <<" ">> \o author.lastName

\* a filter that keeps the creators of every role
isAuthorAnyRole(author) == TRUE

\* .filter((author) => author.creatorType === "author")
isAuthor(author) == author.creatorType = "author"

\* a join that tells two authors from more by a comma
authorSeparatorComma(n) == <<",", " ">>

\* if (formatted.length === 2) " and " else ", "
authorSeparator(n) == IF n = 2 THEN <<" ", "a", "n", "d", " ">> ELSE <<",", " ">>

formatAuthors(authors, rich) ==
    LET kept == SelectSeq(authors, isAuthor)
        formatted == [i \in 1..Len(kept) |-> formatAuthor(kept[i], rich)]
    IN  join(formatted, authorSeparator(Len(formatted)))

\* formatAuthors(item.creators, options)
ApplyFormatAuthors ==
    /\ output = None
    /\ output' = Some(formatAuthors(input.creators, input.rich))
    /\ UNCHANGED <<input, errors>>
    /\ UNCHANGED <<envVars, mainVars, fetchVars, pubmedVars, keysVars>>

----------------------------------------------------------------------------
(* formatJournalInfo *)

\* if (x): an optional string that is present and not empty
truthy(opt) == opt # None /\ opt[1] # <<>>

\* a test of the start of the url alone
urlStartsWith(meta, part) ==
    meta.url # None /\ SubSeq(meta.url[1], 1, Len(part)) = part

\* meta.url?.includes(part)
urlIncludes(meta, part) == meta.url # None /\ includes(meta.url[1], part)

\* a call that returns without writing to console.error
ReturnsSilently(value, logged) == [threw |-> FALSE, value |-> value, logged |-> FALSE]

\* the result of a call that returns
Returns(value, logged) == [threw |-> FALSE, value |-> value, logged |-> logged]

\* an assert(...) that lets the call go on to return nothing
AssertIgnored == [threw |-> FALSE, value |-> <<>>, logged |-> FALSE]

\* the result of a call whose assert(...) throws an AssertionError
Throws == [threw |-> TRUE, value |-> <<>>, logged |-> FALSE]

\* a separator that looks at the volume alone
venueSeparatorVolumeOnly(issue, volume) == IF truthy(volume) THEN <<":">> ELSE <<" ">>

\* (issue || volume) ? ":" : " "
venueSeparator(issue, volume) ==
    IF truthy(issue) \/ truthy(volume) THEN <<":">> ELSE <<" ">>

\* the journalArticle branch, after its assert
journalCitation(meta, rich) ==
    it(rich, meta.publicationTitle[1])
    \o (IF truthy(meta.volume) THEN <<" ">> \o bold(rich, meta.volume[1]) ELSE <<>>)
    \o (IF truthy(meta.issue) THEN <<"(">> \o meta.issue[1] \o <<")">> ELSE <<>>)
    \o (IF truthy(meta.pages)
        THEN venueSeparator(meta.issue, meta.volume) \o meta.pages[1]
        ELSE <<>>)

\* a preprint branch that tests the servers from the last to the first
preprintServerReversed(meta, rich) ==
    IF urlIncludes(meta, <<"s", "s", "r", "n">>) THEN it(rich, <<"S", "S", "R", "N", " ", "P", "r", "e", "p", "r", "i", "n", "t", "s">>)
    ELSE IF urlIncludes(meta, <<"o", "s", "f", ".", "i", "o">>) THEN it(rich, <<"O", "S", "F", " ", "P", "r", "e", "p", "r", "i", "n", "t", "s">>)
    ELSE IF urlIncludes(meta, <<"m", "e", "d", "r", "x", "i", "v">>) THEN it(rich, <<"m", "e", "d", "R", "x", "i", "v">>)
    ELSE IF urlIncludes(meta, <<"b", "i", "o", "r", "x", "i", "v">>) THEN it(rich, <<"b", "i", "o", "R", "x", "i", "v">>)
    ELSE IF urlIncludes(meta, <<"a", "r", "x", "i", "v">>) THEN it(rich, <<"a", "r", "X", "i", "v">>)
    ELSE it(rich, <<"P", "r", "e", "p", "r", "i", "n", "t">>)

\* the preprint branch
preprintServer(meta, rich) ==
    IF urlIncludes(meta, <<"a", "r", "x", "i", "v">>) THEN it(rich, <<"a", "r", "X", "i", "v">>)
    ELSE IF urlIncludes(meta, <<"b", "i", "o", "r", "x", "i", "v">>) THEN it(rich, <<"b", "i", "o", "R", "x", "i", "v">>)
    ELSE IF urlIncludes(meta, <<"m", "e", "d", "r", "x", "i", "v">>) THEN it(rich, <<"m", "e", "d", "R", "x", "i", "v">>)
    ELSE IF urlIncludes(meta, <<"o", "s", "f", ".", "i", "o">>) THEN it(rich, <<"O", "S", "F", " ", "P", "r", "e", "p", "r", "i", "n", "t", "s">>)
    ELSE IF urlIncludes(meta, <<"s", "s", "r", "n">>) THEN it(rich, <<"S", "S", "R", "N", " ", "P", "r", "e", "p", "r", "i", "n", "t", "s">>)
    ELSE it(rich, <<"P", "r", "e", "p", "r", "i", "n", "t">>)

formatJournalInfo(meta, rich) ==
    IF meta.itemType = "thesis" THEN Returns(it(rich, <<"T", "h", "e", "s", "i", "s">>), FALSE)
    ELSE IF meta.itemType = "preprint" THEN Returns(preprintServer(meta, rich), FALSE)
    ELSE IF truthy(meta.publicationTitle) THEN
        IF meta.itemType = "journalArticle"
        THEN Returns(journalCitation(meta, rich), FALSE) ELSE Throws
    ELSE IF truthy(meta.proceedingsTitle) THEN
        IF meta.itemType = "conferencePaper"
        THEN Returns(it(rich, meta.proceedingsTitle[1]), FALSE) ELSE Throws
    ELSE IF truthy(meta.bookTitle) THEN
        IF meta.itemType = "bookSection"
        THEN Returns(it(rich, meta.bookTitle[1]) \o <<" ", "(", "B", "o", "o", "k", ")">>, FALSE) ELSE Throws
    ELSE IF truthy(meta.institution) THEN
        IF meta.itemType = "report"
        THEN Returns(it(rich, meta.institution[1])
                     \o (IF truthy(meta.pages) THEN <<" ">> \o meta.pages[1] ELSE <<>>),
                     FALSE)
        ELSE Throws
    ELSE Returns(<<>>, TRUE)  \* console.error("Unhandled item type", meta)

\* formatJournalInfo(item, options)
ApplyFormatJournalInfo ==
    /\ output = None
    /\ output' = Some(formatJournalInfo(input.meta, input.rich))
    /\ UNCHANGED <<input, errors>>
    /\ UNCHANGED <<envVars, mainVars, fetchVars, pubmedVars, keysVars>>

\* zoteroItemSchema.safeParse(record)
ApplySchema ==
    /\ output = None
    /\ output' = Some(zoteroItemSchema(input))
    /\ UNCHANGED <<input, errors>>
    /\ UNCHANGED <<envVars, mainVars, fetchVars, pubmedVars, keysVars>>

\* items.toSorted(..).map(..) of main, on its own
ApplySort ==
    /\ output = None
    /\ output' = Some(sortAndEnrich(input, records))
    /\ UNCHANGED <<input, errors>>
    /\ UNCHANGED <<envVars, mainVars, fetchVars, pubmedVars, keysVars>>

----------------------------------------------------------------------------
(* main of the final script *)

\* let pubs = await fetchZoteroCollection(GROUP, PUBLICATIONS): the call
MainFetchPubs ==
    /\ pc = "start"
    /\ pc' = "awaitPubs"
    /\ fpc' = "loop" /\ fcoll' = "pubs" /\ start' = 0 /\ fitems' = <<>>
    /\ UNCHANGED <<requests, items, withPubMedIds, files, log, errors>>
    /\ UNCHANGED <<envVars, pubmedVars, keysVars, pureVars>>

\* items.push(...pubs); let preprints = await fetchZoteroCollection(.., PREPRINTS)
MainFetchPreprints ==
    /\ pc = "awaitPubs" /\ fpc = "returned"
    /\ items' = items \o fitems
    /\ pc' = "awaitPreprints"
    /\ fpc' = "loop" /\ fcoll' = "preprints" /\ start' = 0 /\ fitems' = <<>>
    /\ UNCHANGED <<requests, withPubMedIds, files, log, errors>>
    /\ UNCHANGED <<envVars, pubmedVars, keysVars, pureVars>>

\* items.push(...preprints); idMap = await getPubMedIds(dois): the call
MainGetPubMedIds ==
    /\ pc = "awaitPreprints" /\ fpc = "returned"
    /\ items' = items \o fitems
    /\ pc' = "awaitPubMed"
    /\ fpc' = "idle"
    /\ dois' = doisOf(items')
    /\ gi' = 0 /\ records' = <<>>
    /\ gpc' = pubMedLoop(0, dois')
    /\ UNCHANGED <<fcoll, start, fitems, requests, batches>>
    /\ UNCHANGED <<withPubMedIds, files, log, errors>>
    /\ UNCHANGED <<envVars, keysVars, pureVars>>

\* let withPubMedIds = items.toSorted(..).map(..); await fs.ensureDir(outDir)
MainSort ==
    /\ pc = "awaitPubMed" /\ gpc = "returned"
    /\ withPubMedIds' = sortAndEnrich(items, records)
    /\ pc' = "awaitEnsureDir"
    /\ UNCHANGED <<items, files, log, errors>>
    /\ UNCHANGED <<envVars, fetchVars, pubmedVars, keysVars, pureVars>>

\* the three Deno.writeTextFileSync calls, both partitions having an item
MainExport ==
    /\ pc = "awaitEnsureDir"
    /\ ~toCsvThrows(SelectSeq(withPubMedIds, IsNotPreprint))
    /\ ~toCsvThrows(SelectSeq(withPubMedIds, IsPreprint))
    /\ files' = writeTextFileSync(
                   writeTextFileSync(
                     writeTextFileSync(files, "papers.json", withPubMedIds),
                     "pubs.csv", toCsv(SelectSeq(withPubMedIds, IsNotPreprint))),
                   "preprints.csv", toCsv(SelectSeq(withPubMedIds, IsPreprint)))
    /\ pc' = "done"
    /\ UNCHANGED <<items, withPubMedIds, log, errors>>
    /\ UNCHANGED <<envVars, fetchVars, pubmedVars, keysVars, pureVars>>

\* papers.json is written, then toCsv throws on the empty list of publications
MainExportThrowsOnPubs ==
    /\ pc = "awaitEnsureDir"
    /\ toCsvThrows(SelectSeq(withPubMedIds, IsNotPreprint))
    /\ files' = writeTextFileSync(files, "papers.json", withPubMedIds)
    /\ errors' = Append(errors, "TypeError")
    /\ pc' = "aborted"
    /\ UNCHANGED <<items, withPubMedIds, log>>
    /\ UNCHANGED <<envVars, fetchVars, pubmedVars, keysVars, pureVars>>

\* papers.json and pubs.csv are written, then toCsv throws on the empty list
\* of preprints
MainExportThrowsOnPreprints ==
    /\ pc = "awaitEnsureDir"
    /\ ~toCsvThrows(SelectSeq(withPubMedIds, IsNotPreprint))
    /\ toCsvThrows(SelectSeq(withPubMedIds, IsPreprint))
    /\ files' = writeTextFileSync(
                   writeTextFileSync(files, "papers.json", withPubMedIds),
                   "pubs.csv", toCsv(SelectSeq(withPubMedIds, IsNotPreprint)))
    /\ errors' = Append(errors, "TypeError")
    /\ pc' = "aborted"
    /\ UNCHANGED <<items, withPubMedIds, log>>
    /\ UNCHANGED <<envVars, fetchVars, pubmedVars, keysVars, pureVars>>

\* fs.ensureDir rejects
MainEnsureDirFails ==
    /\ pc = "awaitEnsureDir"
    /\ errors' = Append(errors, "EnsureDirError")
    /\ pc' = "aborted"
    /\ UNCHANGED <<items, withPubMedIds, files, log>>
    /\ UNCHANGED <<envVars, fetchVars, pubmedVars, keysVars, pureVars>>

\* an awaited call has thrown: nothing catches it, main rejects
MainRejected ==
    /\ \/ pc \in {"awaitPubs", "awaitPreprints"} /\ fpc = "thrown"
       \/ pc = "awaitPubMed" /\ gpc = "thrown"
    /\ pc' = "aborted"
    /\ UNCHANGED <<items, withPubMedIds, files, log, errors>>
    /\ UNCHANGED <<envVars, fetchVars, pubmedVars, keysVars, pureVars>>

----------------------------------------------------------------------------
(* Specification SpecFetch: one call of fetchZoteroCollection *)

\* the remote record at position i of a collection, by kind
RawOfKind(kind, i) ==
    CASE kind = "note"       -> Raw(ToString(i), "note", None, <<>>)
      [] kind = "attachment" -> Raw(ToString(i), "attachment", None, <<>>)
      [] kind = "invalid"    -> Raw(ToString(i), "journalArticle", None,
                                    <<<<2023>>, <<2024>>>>)
      [] OTHER               -> Raw(ToString(i), kind, None, <<<<2024, i>>>>)

RawKinds == {"note", "attachment", "invalid", "journalArticle"}

InitFetch ==
    /\ \E kinds \in SeqsUpTo(RawKinds, MaxRaw) :
          server = [pubs |-> [i \in 1..Len(kinds) |-> RawOfKind(kinds[i], i)],
                    preprints |-> <<>>]
    /\ ncbi = <<>>
    /\ fpc = "loop" /\ fcoll = "pubs" /\ start = 0 /\ fitems = <<>>
    /\ requests = <<>>
    /\ PubMedIdle /\ MainIdle /\ KeysIdle /\ PureIdle

NextFetch ==
    \/ FetchPage
    \/ FetchPageInvalid
    \/ FetchPageFails

SpecFetch == InitFetch /\ [][NextFetch]_vars

\* the records of the collection the API pages over
RawItems(collectionId) == SelectSeq(server[collectionId], IsNotAttachment)

\* C1: fetchZoteroCollection requests the offsets 0, P, 2P, ..., every page
\* before the last one requested is full, the loop can always take its next
\* step, and it returns after the first page whose raw length is below P:
\* after exactly floor(N/P)+1 requests for N raw items.
FetchTerminates ==
    LET N == Len(RawItems(fcoll))
        n == Len(requests)
    IN  /\ \A i \in 1..n : requests[i].start = (i - 1) * itemsPerPage
        /\ \A i \in 1..(n - 1) : requests[i].len = itemsPerPage
        /\ n <= (N \div itemsPerPage) + 1
        /\ fpc = "loop" => /\ start = n * itemsPerPage
                           /\ start <= N
                           /\ ENABLED (FetchPage \/ FetchPageInvalid)
        /\ fpc = "returned" => /\ n = (N \div itemsPerPage) + 1
                               /\ requests[n].len < itemsPerPage

\* C1 witness: a fetch of several pages has returned after a final page that
\* is not empty and holds only notes
FetchTerminatesWitness ==
    /\ fpc = "returned"
    /\ Len(requests) >= 2
    /\ requests[Len(requests)].len >= 1
    /\ filterNotes(zoteroItemsResponse(fcoll, itemsPerPage, start)) = <<>>
    /\ fitems # <<>>

\* C2: the returned list is the validated non-note records of the
\* collection, each once, in server order
FetchComplete ==
    fpc = "returned" =>
        /\ fitems = arrayParse(filterNotes(RawItems(fcoll)))
        /\ \A i, j \in 1..Len(fitems) : fitems[i].key = fitems[j].key => i = j
        /\ \A i \in 1..Len(fitems) : fitems[i].itemType # "note"

\* C2 witness: several pages, with notes and attachments among the records
FetchCompleteWitness ==
    /\ fpc = "returned"
    /\ Len(requests) >= 3
    /\ Len(fitems) >= 2
    /\ \E i \in 1..Len(server[fcoll]) : server[fcoll][i].itemType = "note"
    /\ \E i \in 1..Len(server[fcoll]) : server[fcoll][i].itemType = "attachment"

----------------------------------------------------------------------------
(* Specification SpecMain: one run of the final script *)

DoiA == "10.1/a"
DoiB == "10.1/b"

\* the records the two remote collections are made of
Catalog ==
    { Raw("A", "journalArticle", Some(DoiA), <<<<2024, 1>>>>),
      Raw("B", "preprint", Some(DoiB), <<<<2023, 12>>>>),
      Raw("C", "journalArticle", Some(""), <<<<2024>>>>),
      Raw("N", "note", None, <<>>),
      Raw("X", "journalArticle", None, <<<<2023>>, <<2024>>>>) }

\* a collection holds a record once
Collections ==
    {c \in SeqsUpTo(Catalog, MaxColl) : \A i, j \in 1..Len(c) : c[i] = c[j] => i = j}

InitMain ==
    /\ server \in [pubs : Collections, preprints : Collections]
    /\ ncbi \in NcbiStates({DoiA, DoiB})
    /\ FetchIdle /\ PubMedIdle /\ KeysIdle /\ PureIdle
    /\ pc = "start" /\ items = <<>> /\ withPubMedIds = <<>> /\ files = NoFiles
    /\ errors = <<>> /\ log = <<>>

NextMain ==
    \/ MainFetchPubs
    \/ FetchPage
    \/ FetchPageInvalid
    \/ FetchPageFails
    \/ MainFetchPreprints
    \/ MainGetPubMedIds
    \/ GetPubMedIdsBatch
    \/ GetPubMedIdsFails
    \/ MainSort
    \/ MainEnsureDirFails
    \/ MainExport
    \/ MainExportThrowsOnPubs
    \/ MainExportThrowsOnPreprints
    \/ MainRejected

SpecMain == InitMain /\ [][NextMain]_vars

----------------------------------------------------------------------------
(* Specification SpecKeys: one run of the key-list script *)

InitKeys ==
    /\ server \in [pubs : Collections, preprints : Collections]
    /\ ncbi = (DoiA :> Some(PmidOf(DoiA)))
    /\ FetchIdle /\ PubMedIdle /\ KeysIdle /\ PureIdle
    /\ pc = "keys" /\ items = <<>> /\ withPubMedIds = <<>> /\ files = NoFiles
    /\ errors = <<>> /\ log = <<>>

NextKeys ==
    \/ KeysFetchPubs
    \/ KeysFetchPreprints
    \/ KeysFetchFails
    \/ KeysAssert
    \/ KeysAssertThrows
    \/ FetchItem
    \/ FetchItemFails
    \/ KeysGetPubMedIds
    \/ GetPubMedIdsBatch
    \/ GetPubMedIdsFails
    \/ KeysExport
    \/ KeysExportThrows
    \/ KeysRejected

SpecKeys == InitKeys /\ [][NextKeys]_vars

----------------------------------------------------------------------------
(* Claims about the two scripts *)

AnyFileWritten == \E f \in OutputFiles : files[f].written

\* the keys of the records of a collection that are neither attachments nor notes
ItemKeysOf(collectionId) ==
    {r.key : r \in {x \in Range(server[collectionId]) :
                        IsNotAttachment(x) /\ IsNotNote(x)}}

SharedKey == ItemKeysOf("pubs") \cap ItemKeysOf("preprints") # {}

\* C3: when the two collections share an item key, the run does not
\* complete and writes no output file
OverlapAborts ==
    SharedKey => /\ ~AnyFileWritten
                 /\ pc # "done"

\* C3, for the key-list script alone: it asserts before it fetches any item
OverlapAbortsKeys ==
    SharedKey => /\ ~AnyFileWritten
                 /\ attempts = <<>>
                 /\ pc \in {"keys", "keysPubs", "keysPreprints", "keysBoth", "aborted"}

Succeeded(k) == \E i \in 1..Len(attempts) : attempts[i].key = k /\ attempts[i].ok
FailedTwice(k) ==
    \E i \in 1..Len(attempts) :
        attempts[i].key = k /\ attempts[i].n = 2 /\ ~attempts[i].ok

\* the keys the loop is done with
Processed == SubSeq(itemKeys, 1, ki - 1)

\* C4: every key is attempted at most twice, the second time only right
\* after its first attempt failed; a key that fails twice is logged and
\* contributes nothing, the loop goes on and no error is thrown; every other
\* key contributes exactly one item, in the order of the keys.
RetryOnce ==
    /\ \A k \in Range(itemKeys) :
          Cardinality({i \in 1..Len(attempts) : attempts[i].key = k}) <= 2
    /\ \A i \in 1..Len(attempts) :
          attempts[i].n = 2 =>
              /\ i > 1
              /\ attempts[i - 1] = [key |-> attempts[i].key, n |-> 1, ok |-> FALSE]
    /\ \A i \in 1..Len(attempts) :
          (attempts[i].n = 1 /\ ~attempts[i].ok /\ i < Len(attempts)) =>
              attempts[i + 1].key = attempts[i].key /\ attempts[i + 1].n = 2
    /\ pc = "loop" => errors = <<>>
    /\ pc \in {"loop", "awaitPubMed", "done"} =>
          /\ keysOf(items) = SelectSeq(Processed, Succeeded)
          /\ log = SelectSeq(Processed, FailedTwice)
          /\ \A k \in Range(Processed) : Succeeded(k) # FailedTwice(k)
    /\ pc \in {"awaitPubMed", "done"} => Processed = itemKeys

\* C4 witness: the loop is over; a key failed twice and was dropped, and a
\* later key was fetched by its second attempt
RetryOnceWitness ==
    /\ pc = "awaitPubMed"
    /\ Len(log) = 1 /\ Len(items) = 1
    /\ \E i \in 1..Len(attempts) :
          /\ attempts[i].n = 2 /\ attempts[i].ok
          /\ attempts[i].key = items[1].key
          /\ i = Len(attempts)
    /\ attempts[1].key = log[1]

FatalErrors == {"FetchError", "ZodError", "IdConverterError"}

FetchFailed == \E i \in 1..Len(errors) : errors[i] \in FatalErrors

\* C5: the final script writes no output file unless both collection
\* fetches and every DOI batch succeeded; a failed page request, a failed
\* validation or a failed DOI batch is not retried: it is the last request
\* made, the run aborts and every output file is as it was before the run.
NoOutputOnFailure ==
    /\ AnyFileWritten =>
          /\ ~FetchFailed
          /\ fpc = "idle" /\ gpc = "returned"
          /\ Len(batches) * batchSize >= Len(dois)
    /\ FetchFailed =>
          /\ files = NoFiles
          /\ Len(errors) = 1
          /\ pc \in {"awaitPubs", "awaitPreprints", "awaitPubMed", "aborted"}
          /\ ~ENABLED (FetchPage \/ FetchPageInvalid \/ FetchPageFails
                        \/ GetPubMedIdsBatch \/ GetPubMedIdsFails)
          /\ pc # "aborted" => ENABLED MainRejected
    /\ \A i, j \in 1..Len(requests) :
          (requests[i].coll = requests[j].coll
             /\ requests[i].start = requests[j].start) => i = j
    /\ Len(batches) * batchSize < Len(dois) + batchSize

\* C5 witness: both collections were fetched, the second DOI batch failed,
\* and the run has ended with no file written
NoOutputOnFailureWitness ==
    /\ pc = "aborted"
    /\ errors = <<"IdConverterError">>
    /\ Len(batches) = 2
    /\ items # <<>>
    /\ files = NoFiles

----------------------------------------------------------------------------
(* Specification SpecSort: the sort and enrichment of main on a list of items *)

\* longest list sorted
MaxSortLen == 3

SortYears == {2023, 2024}
SortMonths == {1, 5, 12}

SortDays == {3, 17}

\* the date-parts of the records sorted: a year, a year and a month, or a
\* day of May of a year
SortDateParts ==
    {<<y>> : y \in SortYears} \cup {<<y, mo>> : y \in SortYears, mo \in SortMonths}
    \cup {<<y, 5, d>> : y \in SortYears, d \in SortDays}

\* the DOI of the record at position i of the list: none for the first, and
\* none again past the third
SortDoi(i) ==
    CASE i = 2 -> Some(DoiA) [] i = 3 -> Some(DoiB) [] OTHER -> None

\* the validated item at position i of the list, dated by parts
SortItem(parts, i) ==
    zoteroItemSchema(Raw(ToString(i), "journalArticle", SortDoi(i), <<parts>>)).value

\* the objects idMap may be: a pmid under some of the keys
IdMaps ==
    UNION {[ks -> {"PMID:1", "PMID:2"}] : ks \in SUBSET {DoiA, "undefined"}}

InitSort ==
    /\ \E ds \in SeqsUpTo(SortDateParts, MaxSortLen) :
          input = [i \in 1..Len(ds) |-> SortItem(ds[i], i)]
    /\ output = None
    /\ records \in IdMaps
    /\ server = [pubs |-> <<>>, preprints |-> <<>>] /\ ncbi = <<>>
    /\ gpc = "idle" /\ dois = <<>> /\ gi = 0 /\ batches = <<>>
    /\ FetchIdle /\ MainIdle /\ KeysIdle

NextSort == ApplySort

SpecSort == InitSort /\ [][NextSort]_vars

\* (year, month or 0) of a before b, lexicographically greater or equal
YearMonthGeq(a, b) ==
    \/ a.date.year[1] > b.date.year[1]
    \/ /\ a.date.year[1] = b.date.year[1]
       /\ monthOrZero(a) >= monthOrZero(b)

\* C6: the sorted list is in descending (year, month or 0) order
SortedByYearMonth ==
    output # None =>
        \A i, j \in 1..Len(output[1]) :
            i < j => YearMonthGeq(output[1][i], output[1][j])

----------------------------------------------------------------------------
(* Specification SpecAuthors: formatAuthors on a list of creators *)

\* longest list of creators
MaxCreators == 3

Person(role, firstName, lastName) ==
    [creatorType |-> role, firstName |-> firstName, lastName |-> lastName]
Organization(role, name) == [creatorType |-> role, name |-> name]

JaneAnnDoe == Person("author", <<"J", "a", "n", "e", " ", "A", "n", "n">>, <<"D", "o", "e">>)

Creators ==
    { JaneAnnDoe,
      Person("author", <<"b", "o">>, <<"L", "i", ",", " ", "J", "r">>),
      Organization("author", <<"H", "u", "B", "M", "A", "P">>),
      Person("editor", <<"E", "d">>, <<"I", "t", "o">>) }

InitAuthors ==
    /\ input \in [creators : SeqsUpTo(Creators, MaxCreators), rich : BOOLEAN]
    /\ output = None
    /\ server = [pubs |-> <<>>, preprints |-> <<>>] /\ ncbi = <<>>
    /\ FetchIdle /\ PubMedIdle /\ MainIdle /\ KeysIdle

NextAuthors == ApplyFormatAuthors

SpecAuthors == InitAuthors /\ [][NextAuthors]_vars

\* the creators of the input that have the role "author", in order
AuthorsOf(creators) == SelectSeq(creators, LAMBDA c : c.creatorType = "author")

\* the number of places at which part occurs in s
Occurrences(s, part) ==
    Cardinality({i \in 0..(Len(s) - Len(part)) : SubSeq(s, i + 1, i + Len(part)) = part})

\* the authors of the input, each rendered
Rendered == [i \in 1..Len(AuthorsOf(input.creators)) |->
                formatAuthor(AuthorsOf(input.creators)[i], input.rich)]

\* C7 as stated: two authors are joined by " and ", and no ", " occurs in
\* the rendered string
TwoAuthorsNoComma ==
    (output # None /\ Len(AuthorsOf(input.creators)) = 2) =>
        /\ output[1] = Rendered[1] \o <<" ", "a", "n", "d", " ">> \o Rendered[2]
        /\ ~includes(output[1], <<",", " ">>)

\* C7 as amended: two authors are joined by " and " and by nothing else: a
\* ", " occurs in the rendered string only inside a rendered author
TwoAuthorsJoinedByAnd ==
    (output # None /\ Len(AuthorsOf(input.creators)) = 2) =>
        /\ output[1] = Rendered[1] \o <<" ", "a", "n", "d", " ">> \o Rendered[2]
        /\ Occurrences(output[1], <<",", " ">>)
             = Occurrences(Rendered[1], <<",", " ">>) + Occurrences(Rendered[2], <<",", " ">>)

\* C7 witness: two authors among three creators have been rendered
TwoAuthorsWitness ==
    /\ output # None
    /\ Len(input.creators) = 3
    /\ Len(AuthorsOf(input.creators)) = 2
    /\ includes(output[1], <<" ", "a", "n", "d", " ">>)

\* the rendered authors with ", " between each two
RECURSIVE CommaJoined(_)
CommaJoined(strs) ==
    IF Len(strs) = 0 THEN <<>>
    ELSE IF Len(strs) = 1 THEN strs[1]
    ELSE CommaJoined(SubSeq(strs, 1, Len(strs) - 1)) \o <<",", " ">> \o strs[Len(strs)]

\* C8 as stated: an item whose number of creators is not 2 has its authors
\* joined with ", "
CreatorsNotTwoJoinedByComma ==
    (output # None /\ Len(input.creators) # 2) => output[1] = CommaJoined(Rendered)

\* C8 as amended: an item whose number of "author" creators is not 2 has
\* its authors, and no other creator, joined with ", "
AuthorsNotTwoJoinedByComma ==
    (output # None /\ Len(AuthorsOf(input.creators)) # 2) =>
        output[1] = CommaJoined(Rendered)

\* C8 witness: three creators, one of them an author and one an editor, have
\* been rendered
AuthorsNotTwoWitness ==
    /\ output # None
    /\ Len(input.creators) = 3
    /\ Len(AuthorsOf(input.creators)) = 1
    /\ \E i \in 1..3 : input.creators[i].creatorType = "editor"

\* the capital letters of s, in order
RECURSIVE Capitals(_)
Capitals(s) ==
    IF s = <<>> THEN <<>>
    ELSE (IF Head(s) \in UpperCase THEN <<Head(s)>> ELSE <<>>) \o Capitals(Tail(s))

\* a creator as C9 describes its rendering
ExpectedAuthor(c) ==
    IF "name" \in DOMAIN c THEN c.name
    ELSE Capitals(c.firstName) \o <<" ">> \o c.lastName

\* the authors of the input, each rendered as C9 describes
Expected == [i \in 1..Len(AuthorsOf(input.creators)) |->
                ExpectedAuthor(AuthorsOf(input.creators)[i])]

HasOrganization == \E i \in 1..Len(input.creators) :
    isAuthor(input.creators[i]) /\ "name" \in DOMAIN input.creators[i]

----------------------------------------------------------------------------
(* Specification SpecVenue: formatJournalInfo on an item *)

ItemTypes ==
    {"thesis", "preprint", "journalArticle", "conferencePaper", "bookSection",
     "report", "book", "magazineArticle"}

Optional(value) == {None, Some(value)}

\* host names of the preprint servers the script knows, of a DOI resolver
\* and of a host that holds "osf" without being osf.io
UrlHosts ==
    {<<"a", "r", "x", "i", "v", ".", "o", "r", "g">>, <<"w", "w", "w", ".", "b", "i", "o", "r", "x", "i", "v", ".", "o", "r", "g">>, <<"w", "w", "w", ".", "m", "e", "d", "r", "x", "i", "v", ".", "o", "r", "g">>, <<"o", "s", "f", ".", "i", "o">>,
     <<"p", "a", "p", "e", "r", "s", ".", "s", "s", "r", "n", ".", "c", "o", "m">>, <<"d", "o", "i", ".", "o", "r", "g">>, <<"o", "s", "f", ".", "e", "x", "a", "m", "p", "l", "e">>}

\* the urls of the items formatted: a host, or a host and a path segment
\* that is itself one of the host names
Urls ==
    {<<"h", "t", "t", "p", "s", ":", "/", "/">> \o h : h \in UrlHosts}
    \cup {<<"h", "t", "t", "p", "s", ":", "/", "/">> \o h \o <<"/">> \o p : h \in UrlHosts, p \in UrlHosts}

\* the items formatted: every item type with every combination of present
\* and absent venue fields
VenueItems ==
    [itemType : ItemTypes,
     publicationTitle : Optional(<<"N", "a", "t", "u", "r", "e">>),
     volume : Optional(<<"6", "0", "0">>),
     issue : Optional(<<"2">>),
     pages : Optional(<<"1", "0", "0", "-", "1", "1", "0">>),
     proceedingsTitle : Optional(<<"P", "r", "o", "c", " ", "V", "I", "S">>),
     bookTitle : Optional(<<"A", "t", "l", "a", "s">>),
     institution : Optional(<<"H", "M", "S">>),
     url : {None} \cup {Some(u) : u \in Urls}]

InitVenue ==
    /\ input \in [meta : VenueItems, rich : BOOLEAN]
    /\ output = None
    /\ server = [pubs |-> <<>>, preprints |-> <<>>] /\ ncbi = <<>>
    /\ FetchIdle /\ PubMedIdle /\ MainIdle /\ KeysIdle

NextVenue == ApplyFormatJournalInfo

SpecVenue == InitVenue /\ [][NextVenue]_vars

\* the value of an optional field, or the empty string
OrEmpty(opt, prefix, suffix) ==
    IF opt = None THEN <<>> ELSE prefix \o opt[1] \o suffix

\* C10: the plain venue of a journalArticle with a publicationTitle is the
\* title, " " volume, "(" issue ")", and the pages behind ":" when an issue
\* or a volume is present and behind " " otherwise
JournalVenue ==
    (/\ output # None
     /\ input.meta.itemType = "journalArticle"
     /\ input.meta.publicationTitle # None
     /\ ~input.rich) =>
        LET meta == input.meta
            sep == IF meta.issue # None \/ meta.volume # None THEN <<":">> ELSE <<" ">>
        IN  /\ ~output[1].threw
            /\ output[1].value =
                  meta.publicationTitle[1]
                  \o OrEmpty(meta.volume, <<" ">>, <<>>)
                  \o OrEmpty(meta.issue, <<"(">>, <<")">>)
                  \o OrEmpty(meta.pages, sep, <<>>)
            /\ (meta.volume # None /\ meta.issue # None /\ meta.pages # None) =>
                  output[1].value = <<"N", "a", "t", "u", "r", "e", " ", "6", "0", "0", "(", "2", ")", ":", "1", "0", "0", "-", "1", "1", "0">>

\* C10 witness: Nature 600(2):100-110 has been rendered
JournalVenueWitness ==
    /\ output # None
    /\ input.meta.itemType = "journalArticle"
    /\ ~input.rich
    /\ output[1] = Returns(<<"N", "a", "t", "u", "r", "e", " ", "6", "0", "0", "(", "2", ")", ":", "1", "0", "0", "-", "1", "1", "0">>, FALSE)

----------------------------------------------------------------------------
(* Claims about the venue of a preprint *)

\* the text occurs somewhere in the url of the item formatted
UrlHas(text) ==
    /\ input.meta.url # None
    /\ Occurrences(input.meta.url[1], text) > 0

\* the venue has been rendered as the name, emphasised in rich mode
Venue(name) ==
    /\ output # None
    /\ ~output[1].threw
    /\ output[1].value = (IF input.rich THEN <<"*">> \o name \o <<"*">> ELSE name)

\* C11 as stated: a preprint whose url contains "biorxiv" renders the venue
\* bioRxiv, whatever the rest of the url and the other fields are
BiorxivVenue ==
    (output # None /\ input.meta.itemType = "preprint" /\ UrlHas(<<"b", "i", "o", "r", "x", "i", "v">>))
        => Venue(<<"b", "i", "o", "R", "x", "i", "v">>)

\* C11 amended: a preprint whose url contains "biorxiv" and does not contain
\* "arxiv" renders the venue bioRxiv whatever its other fields are, and one
\* whose url contains "arxiv" as well renders arXiv
BiorxivVenueUnlessArxiv ==
    (output # None /\ input.meta.itemType = "preprint" /\ UrlHas(<<"b", "i", "o", "r", "x", "i", "v">>))
        => IF UrlHas(<<"a", "r", "x", "i", "v">>) THEN Venue(<<"a", "r", "X", "i", "v">>) ELSE Venue(<<"b", "i", "o", "R", "x", "i", "v">>)

\* C11 witness: a bioRxiv preprint that carries a publication title, a volume
\* and an institution has been rendered as bioRxiv
BiorxivVenueWitness ==
    /\ output # None
    /\ input.meta.itemType = "preprint"
    /\ input.meta.url = Some(<<"h", "t", "t", "p", "s", ":", "/", "/", "w", "w", "w", ".", "b", "i", "o", "r", "x", "i", "v", ".", "o", "r", "g", "/", "d", "o", "i", ".", "o", "r", "g">>)
    /\ input.meta.publicationTitle # None
    /\ input.meta.volume # None
    /\ input.meta.institution # None
    /\ ~input.rich
    /\ output[1] = Returns(<<"b", "i", "o", "R", "x", "i", "v">>, FALSE)

----------------------------------------------------------------------------
(* Claims about the item types and the exceptions of formatJournalInfo.
   formatZoteroItem and formatCitation call formatJournalInfo once and add
   the authors, the title and the year, none of which throws: they throw
   exactly when formatJournalInfo does. *)

RecognizedTypes ==
    {"thesis", "preprint", "journalArticle", "conferencePaper", "bookSection",
     "report"}

\* the venue field that belongs to an item type
VenueFieldOf(itemType) ==
    CASE itemType = "journalArticle" -> "publicationTitle"
      [] itemType = "conferencePaper" -> "proceedingsTitle"
      [] itemType = "bookSection" -> "bookTitle"
      [] itemType = "report" -> "institution"
      [] OTHER -> "none"

\* the first venue field the item carries, in the order publicationTitle,
\* proceedingsTitle, bookTitle, institution
FirstVenueField(meta) ==
    IF meta.publicationTitle # None THEN "publicationTitle"
    ELSE IF meta.proceedingsTitle # None THEN "proceedingsTitle"
    ELSE IF meta.bookTitle # None THEN "bookTitle"
    ELSE IF meta.institution # None THEN "institution"
    ELSE "none"

----------------------------------------------------------------------------
(* Specification SpecSchema: zoteroItemSchema on a raw record *)

\* longest date range of a record
MaxDateLen == 3

\* the elements of the date ranges
JsonParts ==
    {JsonNumber(2023), JsonNumber(5), JsonString(<<"2", "0", "2", "4">>), JsonString(<<>>),
     JsonString(<<"n", ".", "d", ".">>)}

DateRanges == SeqsUpTo(JsonParts, MaxDateLen)

\* date-parts: no range, one range, or a range and one or two more
DateParts ==
    {<<>>} \cup {<<r>> : r \in DateRanges}
    \cup {<<r, <<JsonNumber(2024)>>>> : r \in {<<>>, <<JsonNumber(2023)>>}}
    \cup {<<<<JsonNumber(2023)>>, <<JsonNumber(2024)>>, <<JsonNumber(2025)>>>>}

\* a textual field as the API sends it: absent, empty or with a text
TextValues == {None, Some(""), Some("10.1/a")}

\* the textual fields of a record: one value for a field, one for the others
TextData ==
    {[g \in TextFields |-> IF g = f THEN v ELSE w] :
        f \in TextFields, v \in TextValues, w \in TextValues}

InitSchema ==
    /\ input \in {[key |-> "K", itemType |-> "journalArticle", dateParts |-> d] @@ t :
                     d \in DateParts, t \in TextData}
    /\ output = None
    /\ server = [pubs |-> <<>>, preprints |-> <<>>] /\ ncbi = <<>>
    /\ FetchIdle /\ PubMedIdle /\ MainIdle /\ KeysIdle

NextSchema == ApplySchema

SpecSchema == InitSchema /\ [][NextSchema]_vars

\* C14: a record is accepted exactly when its date-parts array has exactly
\* one element; with no range, or with two or more, validation fails and no
\* item is produced
SingleRangeOnly ==
    output # None =>
        /\ output[1].ok <=> Len(input.dateParts) = 1
        /\ Len(input.dateParts) # 1 => output[1] = [ok |-> FALSE]

\* C14 witness: a record with two date ranges has been rejected
SingleRangeWitness ==
    /\ output # None
    /\ input.dateParts = <<<<JsonNumber(2023)>>, <<JsonNumber(2024)>>>>
    /\ ~output[1].ok

\* C15 as stated: every item that passes validation has a year that is an
\* integer (a record whose single date range is empty or starts with a
\* non-numeric string is rejected), and its month and its day are absent or
\* integers
ValidatedYearIsInteger ==
    (output # None /\ output[1].ok) =>
        /\ output[1].value.date.year # None
        /\ output[1].value.date.nan = {}

\* C16: in an item that passes validation no optional textual field holds
\* the empty string: an empty input is absent, any other input is kept
NoEmptyText ==
    (output # None /\ output[1].ok) =>
        \A f \in TextFields :
            /\ output[1].value[f] # Some("")
            /\ input[f] = Some("") => output[1].value[f] = None
            /\ input[f] # Some("") => output[1].value[f] = input[f]

\* C16 witness: a record with an empty url and a text in its other fields
\* has been validated, the url is absent and the DOI is kept
NoEmptyTextWitness ==
    /\ output # None
    /\ output[1].ok
    /\ input.url = Some("")
    /\ input.DOI = Some("10.1/a")
    /\ output[1].value.url = None
    /\ output[1].value.DOI = Some("10.1/a")
    /\ output[1].value.publicationTitle = Some("10.1/a")

----------------------------------------------------------------------------
(* Specification SpecPubMed: getPubMedIds on a list of DOIs *)

\* longest list of DOIs
MaxDois == 4

\* number of runs of the README generator
MaxRuns == 2

DoiC == "10.1/c"

InitPubMed ==
    /\ dois \in SeqsUpTo({DoiA, DoiB, DoiC}, MaxDois)
    /\ ncbi \in NcbiStates({DoiA, DoiB, DoiC})
    /\ gi = 0 /\ records = <<>> /\ batches = <<>>
    /\ gpc = pubMedLoop(0, dois)
    /\ server = [pubs |-> <<>>, preprints |-> <<>>]
    /\ FetchIdle /\ MainIdle /\ KeysIdle /\ PureIdle

NextPubMed ==
    \/ GetPubMedIdsBatch
    \/ GetPubMedIdsFails

SpecPubMed == InitPubMed /\ [][NextPubMed]_vars

\* the id converter reports the DOI with a pmid that is not empty
Resolved(doi) ==
    /\ doi \in DOMAIN ncbi
    /\ ncbi[doi] # None
    /\ ncbi[doi] # Some("")

\* C17: the map has an entry for a DOI only when the DOI was asked for and
\* the service reported it with a resolved pmid, and the entry is that pmid;
\* once getPubMedIds has returned, every such DOI has its entry, the DOIs
\* reported without a pmid or not reported have none, and nothing was thrown
PubMedMapResolvedOnly ==
    /\ \A doi \in DOMAIN records :
          /\ doi \in Range(dois)
          /\ Resolved(doi)
          /\ records[doi] = ncbi[doi][1]
          /\ records[doi] # ""
    /\ gpc = "returned" =>
          /\ errors = <<>>
          /\ DOMAIN records = {doi \in Range(dois) : Resolved(doi)}

\* C17 witness: getPubMedIds has returned for a DOI that resolves, one that is
\* reported without a pmid and one that is not reported
PubMedMapWitness ==
    /\ gpc = "returned"
    /\ dois = <<DoiA, DoiB, DoiC>>
    /\ DOMAIN ncbi = {DoiA, DoiB}
    /\ ncbi[DoiB] = None
    /\ DOMAIN records = {DoiA}
    /\ records[DoiA] = "PMID:10.1/a"

----------------------------------------------------------------------------
(* Claims about the enrichment *)

\* C18: an item of the enriched list carries a pmid only when it has a DOI
\* and the map has an entry for that DOI, and the pmid is that entry; an item
\* without a DOI, or whose DOI has no entry, has no pmid, whatever the map
\* contains
PmidOnlyFromDoi ==
    output # None =>
        \A i \in 1..Len(output[1]) :
            LET item == output[1][i]
            IN  IF item.DOI # None /\ item.DOI[1] \in DOMAIN records
                THEN item.pmid = Some(records[item.DOI[1]])
                ELSE item.pmid = None

----------------------------------------------------------------------------
(* Claims about the export *)

\* the table has one row per item of the partition, in the order of the
\* partition, each with the five columns
TableOf(content, partition) ==
    /\ Len(content) = Len(partition)
    /\ \A i \in 1..Len(content) :
          /\ DOMAIN content[i] = {"Month", "Year", "Citation", "PubMedID", "DOI"}
          /\ content[i].Citation = partition[i].key

\* C19: once the export has written the sorted list, both tables are
\* written; pubs.csv holds the items that are not preprints and
\* preprints.csv the preprints, one row per item in the order of the sorted
\* list, for any partition including an empty one
ExportPartitions ==
    files["papers.json"].written =>
        /\ files["pubs.csv"].written
        /\ files["preprints.csv"].written
        /\ TableOf(files["pubs.csv"].content, SelectSeq(withPubMedIds, IsNotPreprint))
        /\ TableOf(files["preprints.csv"].content, SelectSeq(withPubMedIds, IsPreprint))

\* the venue of the first server, in the order arxiv, biorxiv, medrxiv, OSF,
\* ssrn, whose substring occurs in the url, OSF being known by osfPart; the
\* literal Preprint when the url is absent or holds none of them
FirstMatchVenue(osfPart) ==
    IF UrlHas(<<"a", "r", "x", "i", "v">>) THEN Venue(<<"a", "r", "X", "i", "v">>)
    ELSE IF UrlHas(<<"b", "i", "o", "r", "x", "i", "v">>) THEN Venue(<<"b", "i", "o", "R", "x", "i", "v">>)
    ELSE IF UrlHas(<<"m", "e", "d", "r", "x", "i", "v">>) THEN Venue(<<"m", "e", "d", "R", "x", "i", "v">>)
    ELSE IF UrlHas(osfPart) THEN Venue(<<"O", "S", "F", " ", "P", "r", "e", "p", "r", "i", "n", "t", "s">>)
    ELSE IF UrlHas(<<"s", "s", "r", "n">>) THEN Venue(<<"S", "S", "R", "N", " ", "P", "r", "e", "p", "r", "i", "n", "t", "s">>)
    ELSE Venue(<<"P", "r", "e", "p", "r", "i", "n", "t">>)

\* C20 as stated: the venue of a preprint is that of the first match, in
\* the order arxiv, biorxiv, medrxiv, osf, ssrn, of a server substring in the
\* url, and Preprint without a match, whatever the other fields are
PreprintFirstMatch ==
    (output # None /\ input.meta.itemType = "preprint")
        => FirstMatchVenue(<<"o", "s", "f">>)

\* C20 amended: the same with osf.io as the substring of OSF
PreprintFirstMatchOsfIo ==
    (output # None /\ input.meta.itemType = "preprint")
        => FirstMatchVenue(<<"o", "s", "f", ".", "i", "o">>)

\* C20 witness: a preprint whose url holds osf.io and then ssrn, and that
\* carries a publication title and a book title, has been rendered as OSF
\* Preprints
PreprintFirstMatchWitness ==
    /\ output # None
    /\ input.meta.itemType = "preprint"
    /\ input.meta.url = Some(<<"h", "t", "t", "p", "s", ":", "/", "/", "o", "s", "f", ".", "i", "o", "/", "p", "a", "p", "e", "r", "s", ".", "s", "s", "r", "n", ".", "c", "o", "m">>)
    /\ input.meta.publicationTitle # None
    /\ input.meta.bookTitle # None
    /\ ~input.rich
    /\ output[1] = [threw |-> FALSE, value |-> <<"O", "S", "F", " ", "P", "r", "e", "p", "r", "i", "n", "t", "s">>, logged |-> FALSE]

----------------------------------------------------------------------------
(* Claims about the venue of the other item types *)

\* the text as the venue emphasises it in rich mode
Emphasised(text) == IF input.rich THEN <<"*">> \o text \o <<"*">> ELSE text

\* the call has returned the venue, without a diagnostic
Rendering(venue) ==
    output[1] = [threw |-> FALSE, value |-> venue, logged |-> FALSE]

\* the venue the item type gives with its own field (which the item carries)
VenueOfType(meta) ==
    CASE meta.itemType = "thesis" -> Emphasised(<<"T", "h", "e", "s", "i", "s">>)
      [] meta.itemType = "conferencePaper" -> Emphasised(meta.proceedingsTitle[1])
      [] meta.itemType = "bookSection" -> Emphasised(meta.bookTitle[1]) \o <<" ", "(", "B", "o", "o", "k", ")">>
      [] meta.itemType = "report" ->
            Emphasised(meta.institution[1])
            \o (IF meta.pages # None THEN <<" ">> \o meta.pages[1] ELSE <<>>)

\* the item is a thesis, or a conferencePaper, bookSection or report that
\* carries the field of its type
HasOwnVenue(meta) ==
    \/ meta.itemType = "thesis"
    \/ meta.itemType = "conferencePaper" /\ meta.proceedingsTitle # None
    \/ meta.itemType = "bookSection" /\ meta.bookTitle # None
    \/ meta.itemType = "report" /\ meta.institution # None

----------------------------------------------------------------------------
(* Claims about the batches of getPubMedIds *)

\* the batches sent so far, one behind the other
RECURSIVE Concat(_)
Concat(bs) == IF bs = <<>> THEN <<>> ELSE Head(bs) \o Concat(Tail(bs))

\* C22: the requests carry consecutive batches of the DOI list in list
\* order, each of at most batchSize DOIs and all but the last of exactly
\* batchSize; once getPubMedIds has returned every DOI of the list has been
\* sent in exactly one batch and ceil(n / batchSize) requests were made, none
\* for an empty list
BatchesPartitionDois ==
    /\ \A k \in 1..Len(batches) :
          /\ Len(batches[k]) \in 1..batchSize
          /\ k < Len(batches) => Len(batches[k]) = batchSize
    /\ Len(Concat(batches)) <= Len(dois)
    /\ Concat(batches) = SubSeq(dois, 1, Len(Concat(batches)))
    /\ gpc = "returned" =>
          /\ Concat(batches) = dois
          /\ Len(batches) = (Len(dois) + batchSize - 1) \div batchSize
    /\ dois = <<>> => batches = <<>> /\ gpc = "returned"

\* C22 witness: getPubMedIds has returned after a full batch and a last
\* batch that is not full
BatchesWitness ==
    /\ gpc = "returned"
    /\ dois = <<DoiA, DoiB, DoiA>>
    /\ batches = <<<<DoiA, DoiB>>, <<DoiA>>>>

----------------------------------------------------------------------------
(* Specification SpecSortUndated: the sort and enrichment of main on a list
   that may hold items without a year, which the validator lets through *)

\* longest list with items without a year
MaxUndatedLen == 7

\* the date-parts of the records sorted: an empty range, or a year
UndatedDateParts == {<<>>, <<2022>>, <<2023>>, <<2024>>}

InitSortUndated ==
    /\ \E ds \in SeqsUpTo(UndatedDateParts, MaxUndatedLen) :
          input = [i \in 1..Len(ds) |-> SortItem(ds[i], i)]
    /\ output = None
    /\ server = [pubs |-> <<>>, preprints |-> <<>>] /\ ncbi = <<>>
    /\ FetchIdle /\ PubMedIdle /\ MainIdle /\ KeysIdle

NextSortUndated == ApplySort

SpecSortUndated == InitSortUndated /\ [][NextSortUndated]_vars

----------------------------------------------------------------------------
(* Claims about the order of the sorted list *)

\* the positions of the sorted list at which the input item i stands
PositionsOf(i) ==
    {j \in 1..Len(output[1]) :
        /\ output[1][j].key = input[i].key
        /\ output[1][j].itemType = input[i].itemType
        /\ output[1][j].DOI = input[i].DOI
        /\ output[1][j].date = input[i].date}

\* C23: the sorted, enriched list holds every input item exactly once and
\* nothing else, and two items with the same year and the same month (or
\* both without a month) stand in their input order, whatever their day and
\* whatever other items the list holds
StablePermutation ==
    output # None =>
        /\ Len(output[1]) = Len(input)
        /\ \A i \in 1..Len(input) : Cardinality(PositionsOf(i)) = 1
        /\ \A i, j \in 1..Len(input) :
              (/\ i < j
               /\ input[i].date.year # None
               /\ input[i].date.year = input[j].date.year
               /\ input[i].date.month = input[j].date.month)
                 => \A p \in PositionsOf(i), q \in PositionsOf(j) : p < q

----------------------------------------------------------------------------
(* The README generator *)

\* the text before the last "## Papers"
beforeLastMarker(readme) ==
    LET marker == <<"#", "#", " ", "P", "a", "p", "e", "r", "s">>
        at == {i \in 0..(Len(readme) - Len(marker)) :
                  SubSeq(readme, i + 1, i + Len(marker)) = marker}
    IN  IF at = {} THEN readme
        ELSE SubSeq(readme, 1, CHOOSE i \in at : \A j \in at : j <= i)

\* readme.split("## Papers").shift(): the text before the first "## Papers",
\* the whole text when there is none
beforeMarker(readme) ==
    LET marker == <<"#", "#", " ", "P", "a", "p", "e", "r", "s">>
        at == {i \in 0..(Len(readme) - Len(marker)) :
                  SubSeq(readme, i + 1, i + Len(marker)) = marker}
    IN  IF at = {} THEN readme
        ELSE SubSeq(readme, 1, CHOOSE i \in at : \A j \in at : i <= j)

\* the fields of a text between the occurrences of a separator character
RECURSIVE splitOn(_, _)
splitOn(s, ch) ==
    LET at == {i \in 1..Len(s) : s[i] = ch}
    IN  IF at = {} THEN <<s>>
        ELSE LET i == CHOOSE i \in at : \A j \in at : i <= j
             IN  <<SubSeq(s, 1, i - 1)>> \o splitOn(SubSeq(s, i + 1, Len(s)), ch)

\* parse(csv) of @std/csv, for records without quoted fields: one array of
\* fields per line that is not empty, the header line included
parse(csv) ==
    LET nonEmpty(line) == line # <<>>
        lines == SelectSeq(splitOn(csv, "\n"), nonEmpty)
    IN  [r \in 1..Len(lines) |-> splitOn(lines[r], ",")]

\* markdownTable(rows, { align: null }): the first row, a row of dashes and
\* the other rows, every cell padded to the width of its column
markdownTable(rows) ==
    IF rows = <<>> THEN <<>>
    ELSE LET columns == 1..Len(rows[1])
             longer(a, c) == IF a > c THEN a ELSE c
             width(c) == CHOOSE w \in 1..100 :
                            /\ \A r \in 1..Len(rows) : w >= longer(1, Len(rows[r][c]))
                            /\ \E r \in 1..Len(rows) : w = longer(1, Len(rows[r][c]))
             fill(n, ch) == [k \in 1..n |-> ch]
             cell(r, c) == rows[r][c] \o fill(width(c) - Len(rows[r][c]), " ")
             row(cells) == <<"|", " ">> \o join(cells, <<" ", "|", " ">>) \o <<" ", "|">>
             line(r) == row([c \in columns |-> cell(r, c)])
             dashes == row([c \in columns |-> fill(width(c), "-")])
         IN  join(<<line(1), dashes>> \o [r \in 1..(Len(rows) - 1) |-> line(r + 1)],
                  <<"\n">>)

\* the content written to README.md
generateReadme(readme, pubsCsv, preprintsCsv) ==
    beforeMarker(readme) \o <<"#", "#", " ", "P", "a", "p", "e", "r", "s", "\n">>
    \o <<"#", "#", "#", " ", "P", "u", "b", "l", "i", "c", "a", "t", "i", "o", "n", "s", "\n", "\n">> \o markdownTable(parse(pubsCsv)) \o <<"\n">>
    \o <<"#", "#", "#", " ", "P", "r", "e", "p", "r", "i", "n", "t", "s", "\n", "\n">> \o markdownTable(parse(preprintsCsv)) \o <<"\n">>

\* one run of the generator: README.md is read (the one of the run before,
\* or the first one) and written again; output holds the README.md of every
\* run so far
GenerateReadme ==
    /\ Len(output) + Len(errors) < MaxRuns
    /\ output' = Append(output,
                    generateReadme(IF output = <<>> THEN input.readme
                                   ELSE output[Len(output)],
                                   input.pubs, input.preprints))
    /\ UNCHANGED <<input, errors>>
    /\ UNCHANGED <<envVars, mainVars, fetchVars, pubmedVars, keysVars>>

\* one run in which Deno.readTextFile rejects: README.md is not written
GenerateReadmeFails ==
    /\ Len(output) + Len(errors) < MaxRuns
    /\ errors' = Append(errors, "NotFound")
    /\ UNCHANGED <<input, output>>
    /\ UNCHANGED <<envVars, mainVars, fetchVars, pubmedVars, keysVars>>

----------------------------------------------------------------------------
(* Specification SpecReadme: runs of the README generator *)

\* the README.md files the first run finds
Readmes ==
    {<<>>, <<"#", " ", "H", "I", "D", "I", "V", "E", "\n">>, <<"#", "#", " ", "P", "a", "p", "e", "r", "s", "\n">>, <<"#", " ", "H", "I", "D", "I", "V", "E", "\n", "\n", "#", "#", " ", "P", "a", "p", "e", "r", "\n">>,
     <<"#", " ", "H", "I", "D", "I", "V", "E", "\n", "\n", "#", "#", " ", "P", "a", "p", "e", "r", "s", "\n", "o", "l", "d", "\n">>, <<"#", " ", "H", "I", "D", "I", "V", "E", "\n", "\n", "#", "#", " ", "P", "a", "p", "e", "r", "s">>,
     <<"#", " ", "H", "I", "D", "I", "V", "E", "\n", "#", "#", " ", "P", "a", "p", "e", "r", "s", "\n", "#", "#", "#", " ", "P", "u", "b", "l", "i", "c", "a", "t", "i", "o", "n", "s", "\n", "\n", "#", "#", " ", "P", "a", "p", "e", "r", "s", "\n">>}

\* the csv files, unchanged between the runs
CsvTexts ==
    {<<"M", "o", "n", "t", "h", ",", "Y", "e", "a", "r", ",", "D", "O", "I", "\n">>, <<"M", "o", "n", "t", "h", ",", "Y", "e", "a", "r", ",", "D", "O", "I", "\n", "5", ",", "2", "0", "2", "3", ",", "1", "0", ".", "1", "/", "a", "\n">>,
     <<"M", "o", "n", "t", "h", ",", "Y", "e", "a", "r", ",", "D", "O", "I", "\n", ",", "2", "0", "2", "4", ",", "#", "#", " ", "P", "a", "p", "e", "r", "s", "\n", "1", "2", ",", "2", "0", "2", "3", ",", "\n">>}

InitReadme ==
    /\ input \in [readme : Readmes, pubs : CsvTexts, preprints : CsvTexts]
    /\ output = <<>>
    /\ errors = <<>>
    /\ server = [pubs |-> <<>>, preprints |-> <<>>] /\ ncbi = <<>>
    /\ fpc = "idle" /\ fcoll = "pubs" /\ start = 0 /\ fitems = <<>>
    /\ requests = <<>>
    /\ PubMedIdle /\ KeysIdle
    /\ pc = "idle" /\ items = <<>> /\ withPubMedIds = <<>> /\ files = NoFiles
    /\ log = <<>>

NextReadme ==
    \/ GenerateReadme
    \/ GenerateReadmeFails

SpecReadme == InitReadme /\ [][NextReadme]_vars

\* the README.md that run k has read
ReadBy(k) == IF k = 1 THEN input.readme ELSE output[k - 1]

\* "## Papers" stands at position i of the text, counted from 0
MarkerAt(s, i) == SubSeq(s, i + 1, i + 9) = <<"#", "#", " ", "P", "a", "p", "e", "r", "s">>

\* the text ends with the sections built from the two csv files
EndsWithSections(s, from) ==
    SubSeq(s, from + 1, Len(s)) =
        <<"#", "#", " ", "P", "a", "p", "e", "r", "s", "\n", "#", "#", "#", " ", "P", "u", "b", "l", "i", "c", "a", "t", "i", "o", "n", "s", "\n", "\n">> \o markdownTable(parse(input.pubs))
        \o <<"\n", "#", "#", "#", " ", "P", "r", "e", "p", "r", "i", "n", "t", "s", "\n", "\n">> \o markdownTable(parse(input.preprints)) \o <<"\n">>

\* C24: a run keeps the text before the first "## Papers" of the README it
\* reads (the whole README when there is none) and puts the sections built
\* from the two csv files behind it; a second run on the same csv files
\* writes the README of the first run again
ReadmeRegenerated ==
    /\ \A k \in 1..Len(output) :
          LET old == ReadBy(k)
              at == {i \in 0..(Len(old) - 9) : MarkerAt(old, i)}
              kept == IF at = {} THEN Len(old)
                      ELSE CHOOSE i \in at : \A j \in at : i <= j
          IN  /\ SubSeq(output[k], 1, kept) = SubSeq(old, 1, kept)
              /\ EndsWithSections(output[k], kept)
    /\ Len(output) >= 2 => output[2] = output[1]

\* C24 witness: a README with two "## Papers" and an old table has been
\* regenerated twice from a csv file that holds "## Papers" itself
ReadmeRegeneratedWitness ==
    /\ Len(output) = 2
    /\ input.readme = <<"#", " ", "H", "I", "D", "I", "V", "E", "\n", "#", "#", " ", "P", "a", "p", "e", "r", "s", "\n", "#", "#", "#", " ", "P", "u", "b", "l", "i", "c", "a", "t", "i", "o", "n", "s", "\n", "\n", "#", "#", " ", "P", "a", "p", "e", "r", "s", "\n">>
    /\ input.pubs = <<"M", "o", "n", "t", "h", ",", "Y", "e", "a", "r", ",", "D", "O", "I", "\n", ",", "2", "0", "2", "4", ",", "#", "#", " ", "P", "a", "p", "e", "r", "s", "\n", "1", "2", ",", "2", "0", "2", "3", ",", "\n">>
    /\ input.preprints = <<"M", "o", "n", "t", "h", ",", "Y", "e", "a", "r", ",", "D", "O", "I", "\n", "5", ",", "2", "0", "2", "3", ",", "1", "0", ".", "1", "/", "a", "\n">>
    /\ output[1] # input.readme
    /\ output[2] = output[1]
    /\ SubSeq(output[1], 1, 19) = <<"#", " ", "H", "I", "D", "I", "V", "E", "\n", "#", "#", " ", "P", "a", "p", "e", "r", "s", "\n">>

====
